---- MODULE Spec2Model ----
(***************************************************************************)
(* Model of the subscription materialization engine of tracking_despesas   *)
(* (src/api.py, src/expense_cli.py) over its SQLite store.                 *)
(*                                                                         *)
(* Dates are triples <<year, month, day>> standing for the stored ISO      *)
(* strings; a triple that is not a calendar date stands for a stored       *)
(* string that datetime.strptime rejects.  Month keys are pairs            *)
(* <<year, month>>.  Amounts are integer cents.  NULL is <<>>.             *)
(***************************************************************************)
EXTENDS Integers, Sequences, FiniteSets, TLC

VARIABLES
    subscriptions,          \* committed rows of table subscriptions
    sub_seq,                \* AUTOINCREMENT counter of subscriptions
    expenses,               \* committed rows of table expenses
    exp_seq,                \* AUTOINCREMENT counter of expenses
    subscription_charges,   \* committed rows of table subscription_charges
    installments,           \* committed rows of table installments
    inst_seq,               \* AUTOINCREMENT counter of installments
    lock,                   \* connection holding SQLite's RESERVED lock
    conn,                   \* per connection: the run_subscriptions call in progress
    budgets,                \* committed rows of table budgets
    budgets_schema,         \* "legacy": budgets has column budget_month; "global": it has not
    BUDGET_MIGRATED,        \* api.py: module flag _BUDGET_MIGRATED
    BUDGET_MIGRATION_LOCK,  \* api.py: thread holding _BUDGET_MIGRATION_LOCK
    threads,                \* per API worker thread: the get_conn call in progress
    budget,                 \* counters bounding the exploration
    pf                      \* the last request refused or answered, with its outcome;
                            \* in the function harnesses, the arguments and the result

vars == <<subscriptions, sub_seq, expenses, exp_seq, subscription_charges,
          installments, inst_seq, lock, conn, budget, pf,
          budgets, budgets_schema, BUDGET_MIGRATED, BUDGET_MIGRATION_LOCK, threads>>

store == <<subscriptions, sub_seq, expenses, exp_seq, subscription_charges,
           installments, inst_seq>>

\* the budgets table and the API process's migration state
budgeting == <<budgets, budgets_schema, BUDGET_MIGRATED, BUDGET_MIGRATION_LOCK, threads>>

----------------------------------------------------------------------------
(* Bounds *)

MaxOps == 2         \* create/update/delete requests on subscriptions
MaxRuns == 2        \* run_subscriptions invocations
MaxCrashes == 1     \* process crashes
MaxCalls == 2       \* get_conn calls of one worker thread
MaxSets == 2        \* set/update/delete requests on budgets through the API

\* one connection of the API server, one of a CLI process, on the same file
Conns == {"api", "cli"}
NoConn == "none"

\* worker threads of the API server's thread pool
Threads == {"t1", "t2"}
NoThread == "none"
NULL == <<>>

\* NULL in an integer key column (AUTOINCREMENT ids start at 1)
NULL_ID == 0

----------------------------------------------------------------------------
(* Calendar arithmetic *)

IsLeap(y) == (y % 4 = 0 /\ y % 100 # 0) \/ y % 400 = 0

\* calendar.monthrange(year, month)[1]
MonthRange(y, m) ==
    IF m \in {4, 6, 9, 11} THEN 30
    ELSE IF m = 2 THEN (IF IsLeap(y) THEN 29 ELSE 28)
    ELSE 31

\* datetime.strptime(value, "%Y-%m-%d") succeeds
DateParses(d) ==
    /\ Len(d) = 3
    /\ d[1] \in 1..9999
    /\ d[2] \in 1..12
    /\ d[3] \in 1..MonthRange(d[1], d[2])

MonthParses_mutant_any(k) == Len(k) = 2

\* datetime.strptime(value, "%Y-%m") succeeds
MonthParses(k) ==
    /\ Len(k) = 2
    /\ k[1] \in 1..9999
    /\ k[2] \in 1..12

DateLT(a, b) ==
    \/ a[1] < b[1]
    \/ a[1] = b[1] /\ a[2] < b[2]
    \/ a[1] = b[1] /\ a[2] = b[2] /\ a[3] < b[3]

DateLE(a, b) == a = b \/ DateLT(a, b)

\* parse_month: first and last day of the month
parse_month(k) ==
    [start |-> <<k[1], k[2], 1>>, end |-> <<k[1], k[2], MonthRange(k[1], k[2])>>]

\* month_key / start.strftime("%Y-%m")
month_key(d) == <<d[1], d[2]>>

Min(a, b) == IF a < b THEN a ELSE b

shift_month_mutant_noclamp(base, offset) ==
    LET year == base[1] + ((base[2] - 1 + offset) \div 12)
        month == ((base[2] - 1 + offset) % 12) + 1
    IN  <<year, month, base[3]>>

\* shift_month (the same function in expense_cli.py and api.py); // and %
\* round toward minus infinity, as \div and % do
shift_month(base, offset) ==
    LET year == base[1] + ((base[2] - 1 + offset) \div 12)
        month == ((base[2] - 1 + offset) % 12) + 1
        day == Min(base[3], MonthRange(year, month))
    IN  <<year, month, day>>

----------------------------------------------------------------------------
(* Installment split of add_installment, in cents *)

\* round(total_amount / count, 2): the nearest cent.  When the quotient is
\* exactly half a cent the binary value of the float quotient decides
\* (0.05 / 2 gives 0.03, 0.25 / 2 gives 0.12): either neighbour.
round_each(total, count) ==
    LET q == total \div count
        r == total % count
    IN  IF 2 * r < count THEN {q}
        ELSE IF 2 * r > count THEN {q + 1}
        ELSE {q, q + 1}

installment_amounts_mutant_nodiff(total, count, each) ==
    [i \in 1..count |-> each]

\* amounts = [each_amount] * count; amounts[-1] += round(total - each * count, 2)
installment_amounts(total, count, each) ==
    [i \in 1..count |-> IF i = count THEN each + (total - each * count) ELSE each]

----------------------------------------------------------------------------
(* Recurrence due-date resolver.  The result is "error" when a stored date *)
(* does not parse (ValueError), else "due" (True) or "not_due" (False).    *)

Bool(b) == IF b THEN "due" ELSE "not_due"

api_due_mutant_noend(sub, start, end) ==
    IF ~DateParses(sub.start_date) THEN "error"
    ELSE IF DateLT(end, sub.start_date) THEN "not_due"
    ELSE IF sub.frequency = "monthly" THEN "due"
    ELSE IF sub.frequency = "yearly" THEN
        LET due_day == Min(sub.start_date[3], MonthRange(start[1], sub.start_date[2]))
            due_date == <<start[1], sub.start_date[2], due_day>>
        IN  Bool(DateLE(start, due_date) /\ DateLE(due_date, end))
    ELSE "not_due"

\* api.py _subscription_due_on_month
api_subscription_due_on_month(sub, start, end) ==
    IF ~DateParses(sub.start_date) THEN "error"
    ELSE IF DateLT(end, sub.start_date) THEN "not_due"
    ELSE IF sub.end_date # NULL /\ ~DateParses(sub.end_date) THEN "error"
    ELSE IF sub.end_date # NULL /\ DateLT(sub.end_date, start) THEN "not_due"
    ELSE IF sub.frequency = "monthly" THEN "due"
    ELSE IF sub.frequency = "yearly" THEN
        LET due_day == Min(sub.start_date[3], MonthRange(start[1], sub.start_date[2]))
            due_date == <<start[1], sub.start_date[2], due_day>>
        IN  Bool(DateLE(start, due_date) /\ DateLE(due_date, end))
    ELSE "not_due"

cli_due_mutant_startday(sub, month) ==
    IF ~DateParses(sub.start_date) THEN "error"
    ELSE IF DateLT(month.end, sub.start_date) THEN "not_due"
    ELSE IF sub.end_date # NULL /\ ~DateParses(sub.end_date) THEN "error"
    ELSE IF sub.end_date # NULL /\ DateLT(sub.end_date, month.start) THEN "not_due"
    ELSE IF sub.frequency = "monthly" THEN Bool(sub.start_date[3] <= month.end[3])
    ELSE Bool(\E y \in (month.start[1] - 1)..(month.start[1] + 1) :
            LET due_date == <<y, sub.start_date[2],
                              Min(sub.start_date[3], MonthRange(y, sub.start_date[2]))>>
            IN  DateLE(month.start, due_date) /\ DateLE(due_date, month.end))

cli_due_mutant_startyear(sub, month) ==
    IF ~DateParses(sub.start_date) THEN "error"
    ELSE IF DateLT(month.end, sub.start_date) THEN "not_due"
    ELSE IF sub.end_date # NULL /\ ~DateParses(sub.end_date) THEN "error"
    ELSE IF sub.end_date # NULL /\ DateLT(sub.end_date, month.start) THEN "not_due"
    ELSE IF sub.frequency = "monthly" THEN "due"
    ELSE Bool(DateLE(month.start, sub.start_date) /\ DateLE(sub.start_date, month.end))

\* expense_cli.py subscription_due_on_month
cli_subscription_due_on_month(sub, month) ==
    IF ~DateParses(sub.start_date) THEN "error"
    ELSE IF DateLT(month.end, sub.start_date) THEN "not_due"
    ELSE IF sub.end_date # NULL /\ ~DateParses(sub.end_date) THEN "error"
    ELSE IF sub.end_date # NULL /\ DateLT(sub.end_date, month.start) THEN "not_due"
    ELSE IF sub.frequency = "monthly" THEN "due"
    ELSE Bool(\E y \in (month.start[1] - 1)..(month.start[1] + 1) :
            LET due_date == <<y, sub.start_date[2],
                              Min(sub.start_date[3], MonthRange(y, sub.start_date[2]))>>
            IN  DateLE(month.start, due_date) /\ DateLE(due_date, month.end))

\* the resolver a run uses, by entry point
DueOnMonth(front, sub, k) ==
    IF front = "api"
    THEN api_subscription_due_on_month(sub, parse_month(k).start, parse_month(k).end)
    ELSE cli_subscription_due_on_month(sub, parse_month(k))

----------------------------------------------------------------------------
(* Request bodies and month keys the operations are driven with *)

\* one well-formed monthly subscription and one whose start_date is not a
\* calendar date (the API stores it as given); yearly subscriptions and
\* end dates are driven through the resolvers under SpecDue
SubBodies == {
    [amount |-> 2990, category |-> "tv", frequency |-> "monthly",
     start_date |-> <<2024, 1, 1>>, end_date |-> NULL],
    [amount |-> 500, category |-> "gym", frequency |-> "monthly",
     start_date |-> <<2024, 2, 30>>, end_date |-> NULL] }

\* a month before the start date, two months on or after it, and a key
\* parse_month rejects
RunMonths == { <<2023, 12>>, <<2024, 1>>, <<2024, 2>>, <<2024, 13>> }

----------------------------------------------------------------------------
(* Store helpers *)

SubRow(id, body, active) ==
    [id |-> id, amount |-> body.amount, category |-> body.category,
     frequency |-> body.frequency, start_date |-> body.start_date,
     end_date |-> body.end_date, active |-> active]

RECURSIVE SortedIds(_)
SortedIds(S) ==
    IF S = {} THEN <<>>
    ELSE LET m == CHOOSE x \in S : \A y \in S : x <= y
         IN  <<m>> \o SortedIds(S \ {m})

RowOf(table, id) == CHOOSE r \in table : r.id = id

ActiveSubs_mutant_all(table) ==
    LET ids == SortedIds({r.id : r \in table})
    IN  [n \in 1..Len(ids) |-> RowOf(table, ids[n])]

\* SELECT * FROM subscriptions WHERE active = 1 (rowid order)
ActiveSubs(table) ==
    LET ids == SortedIds({r.id : r \in {x \in table : x.active}})
    IN  [n \in 1..Len(ids) |-> RowOf(table, ids[n])]

FrequencyCheck_mutant_any(f) == TRUE

\* CHECK(frequency IN ('monthly', 'yearly'))
FrequencyCheck(f) == f \in {"monthly", "yearly"}

\* CHECK(amount >= 0)
AmountCheck(a) == a >= 0

ChargeExists_mutant_anymonth(charges, id, k) ==
    \E ch \in charges : ch.subscription_id = id

\* SELECT 1 FROM subscription_charges WHERE subscription_id = ? AND charge_month = ?
ChargeExists(charges, id, k) ==
    \E ch \in charges : ch.subscription_id = id /\ ch.charge_month = k

UniqueViolation_mutant_off(charges, id, k) == FALSE

\* UNIQUE(subscription_id, charge_month)
UniqueViolation(charges, id, k) ==
    \E ch \in charges : ch.subscription_id = id /\ ch.charge_month = k

\* FOREIGN KEY(subscription_id) REFERENCES subscriptions(id)
SubscriptionKeyHolds(table, id) == \E r \in table : r.id = id

ExpenseKeyBlocks_mutant_cascade(table, id) == FALSE

\* the same key seen from the parent: it has no ON DELETE action, so a
\* DELETE of a subscription that an expense references fails
ExpenseKeyBlocks(table, id) == \E e \in table : e.subscription_id = id

\* a row of table expenses; columns that are NULL hold NULL_ID
ExpenseRow(id, expense_date, amount, category, kind, subscription_id, installment_id, installment_number, installment_total) ==
    [id |-> id, expense_date |-> expense_date, amount |-> amount,
     category |-> category, kind |-> kind, subscription_id |-> subscription_id,
     installment_id |-> installment_id, installment_number |-> installment_number,
     installment_total |-> installment_total]

ChargeExpense_mutant_lastday(sub, k, id) ==
    ExpenseRow(id, parse_month(k).end, sub.amount, sub.category, "subscription",
               sub.id, NULL_ID, NULL_ID, NULL_ID)

ChargeExpense_mutant_installment(sub, k, id) ==
    ExpenseRow(id, <<parse_month(k).start[1], parse_month(k).start[2], 1>>,
               sub.amount, sub.category, "installment", sub.id, NULL_ID, NULL_ID, NULL_ID)

\* the row run_subscriptions inserts into expenses
ChargeExpense(sub, k, id) ==
    ExpenseRow(id, <<parse_month(k).start[1], parse_month(k).start[2], 1>>,
               sub.amount, sub.category, "subscription", sub.id, NULL_ID, NULL_ID, NULL_ID)

ChargeMarker_mutant_nextid(sub, k, expense_id) ==
    [subscription_id |-> sub.id, charge_month |-> month_key(parse_month(k).start),
     expense_id |-> expense_id + 1]

\* the row run_subscriptions inserts into subscription_charges
ChargeMarker(sub, k, expense_id) ==
    [subscription_id |-> sub.id, charge_month |-> month_key(parse_month(k).start),
     expense_id |-> expense_id]

CommitRows_mutant_lost(table, tx) == table

\* conn.commit(): the transaction's rows become durable
CommitRows(table, tx) == table \cup tx

Rollback_mutant_keep(table, tx) == table \cup tx

\* the connection is dropped with an open transaction: its rows are undone
Rollback(table, tx) == table

DryRunBranch_mutant_never(dry) == FALSE

\* if body.dry_run / if args.dry_run
DryRunBranch(dry) == dry

IdleThread == [pc |-> "idle", calls |-> 0, ran |-> 0]

\* the API server has answered a request on a store that init_db created
\* and that holds no budget: the migration has run, the table is global
BudgetsMigrated ==
    /\ budgets = {}
    /\ budgets_schema = "global"
    /\ BUDGET_MIGRATED = TRUE
    /\ BUDGET_MIGRATION_LOCK = NoThread
    /\ threads = [t \in Threads |-> IdleThread]

IdleConn ==
    [pc |-> "idle", month |-> <<2024, 1>>, dry_run |-> FALSE,
     subs |-> <<>>, i |-> 1, tx_exp |-> {}, tx_chg |-> {},
     eligible |-> 0, already |-> 0, materialized |-> 0, err |-> "", at |-> "",
     after |-> "fresh"]

Init ==
    /\ subscriptions = {}
    /\ sub_seq = 0
    /\ expenses = {}
    /\ exp_seq = 0
    /\ subscription_charges = {}
    /\ installments = {}
    /\ inst_seq = 0
    /\ lock = NoConn
    /\ conn = [c \in Conns |-> IdleConn]
    /\ budget = [ops |-> 0, runs |-> 0, crashes |-> 0, sets |-> 0]
    /\ BudgetsMigrated
    /\ pf = [op |-> "none"]

----------------------------------------------------------------------------
(* Subscription maintenance.  A write statement needs the RESERVED lock;   *)
(* while a run's transaction holds it the request fails with "database is  *)
(* locked" and changes nothing.                                            *)

\* expense_cli.py add_subscription: dates are parsed before the INSERT
CliAddSubscription(body) ==
    /\ lock = NoConn
    /\ budget.ops < MaxOps
    /\ DateParses(body.start_date)
    /\ body.end_date # NULL => DateParses(body.end_date)
    /\ FrequencyCheck(body.frequency) /\ AmountCheck(body.amount)
    /\ subscriptions' = subscriptions \cup {SubRow(sub_seq + 1, body, TRUE)}
    /\ sub_seq' = sub_seq + 1
    /\ budget' = [budget EXCEPT !.ops = @ + 1]
    /\ UNCHANGED <<expenses, exp_seq, subscription_charges, installments, inst_seq, lock, conn, pf>>
    /\ UNCHANGED budgeting

\* api.py add_subscription: start_date is stored as received, no end_date
ApiAddSubscription(body) ==
    /\ lock = NoConn
    /\ budget.ops < MaxOps
    /\ FrequencyCheck(body.frequency) /\ AmountCheck(body.amount)
    /\ subscriptions' = subscriptions \cup
            {SubRow(sub_seq + 1, [body EXCEPT !.end_date = NULL], TRUE)}
    /\ sub_seq' = sub_seq + 1
    /\ budget' = [budget EXCEPT !.ops = @ + 1]
    /\ UNCHANGED <<expenses, exp_seq, subscription_charges, installments, inst_seq, lock, conn, pf>>
    /\ UNCHANGED budgeting

\* api.py update_subscription: every column is overwritten as received
UpdateSubscription(id, body, active) ==
    /\ lock = NoConn
    /\ budget.ops < MaxOps
    /\ \E r \in subscriptions : r.id = id
    /\ FrequencyCheck(body.frequency) /\ AmountCheck(body.amount)
    /\ SubRow(id, body, active) \notin subscriptions
    /\ subscriptions' = (subscriptions \ {RowOf(subscriptions, id)})
                            \cup {SubRow(id, body, active)}
    /\ budget' = [budget EXCEPT !.ops = @ + 1]
    /\ UNCHANGED <<sub_seq, expenses, exp_seq, subscription_charges, installments, inst_seq,
                 lock, conn, pf>>
    /\ UNCHANGED budgeting

\* api.py delete_subscription: expenses.subscription_id has no ON DELETE
\* action, so a linked expense makes the DELETE fail; charges cascade
DeleteSubscription(id) ==
    /\ lock = NoConn
    /\ budget.ops < MaxOps
    /\ \E r \in subscriptions : r.id = id
    /\ ~ExpenseKeyBlocks(expenses, id)
    /\ subscriptions' = subscriptions \ {RowOf(subscriptions, id)}
    /\ subscription_charges' = {ch \in subscription_charges : ch.subscription_id # id}
    /\ budget' = [budget EXCEPT !.ops = @ + 1]
    /\ UNCHANGED <<sub_seq, expenses, exp_seq, installments, inst_seq, lock, conn, pf>>
    /\ UNCHANGED budgeting

----------------------------------------------------------------------------
(* run_subscriptions, one step per statement that touches the store *)

InRun(c) == conn[c].pc \in {"check", "insert", "marker"}

CurSub(c) == conn[c].subs[conn[c].i]

\* what connection c reads: committed rows and its own uncommitted ones
ChargesSeenBy(c) == subscription_charges \cup conn[c].tx_chg

\* how a call relates to the calls before it: "rerun" when a non-dry run
\* for the same month has finished over the subscriptions as stored now,
\* "retry" when a run for the month died between its two inserts
Precedent(k) ==
    IF \E c \in Conns : /\ conn[c].pc = "done" /\ conn[c].month = k /\ ~conn[c].dry_run
                        /\ conn[c].subs = ActiveSubs(subscriptions)
    THEN "rerun"
    ELSE IF \E c \in Conns : /\ conn[c].pc = "crashed" /\ conn[c].month = k
                             /\ conn[c].at = "marker"
    THEN "retry"
    ELSE "fresh"

\* the loop's `continue` for rows that are not due: the first row from i on
\* that is due or does not parse (Len + 1 when there is none)
RECURSIVE NextRow(_, _, _, _)
NextRow(front, subs, k, i) ==
    IF i > Len(subs) \/ DueOnMonth(front, subs[i], k) # "not_due" THEN i
    ELSE NextRow(front, subs, k, i + 1)

\* parse_month, then SELECT the active subscriptions
StartRun(c, k, dry) ==
    /\ ~InRun(c)
    /\ budget.runs < MaxRuns
    /\ budget' = [budget EXCEPT !.runs = @ + 1]
    /\ conn' = [conn EXCEPT ![c] =
            IF ~MonthParses(k)
            THEN [IdleConn EXCEPT !.pc = "failed", !.err = "ValueError",
                                  !.month = k, !.dry_run = dry]
            ELSE [IdleConn EXCEPT !.pc = "check", !.month = k,
                                  !.dry_run = dry, !.subs = ActiveSubs(subscriptions),
                                  !.i = NextRow(c, ActiveSubs(subscriptions), k, 1),
                                  !.after = Precedent(k)]]
    /\ UNCHANGED <<store, lock, pf>>
    /\ UNCHANGED budgeting

\* an exception leaves the handler, or the process dies: the connection
\* is dropped uncommitted and SQLite rolls its transaction back
Abort(c, pc, err) ==
    /\ conn' = [conn EXCEPT ![c].pc = pc, ![c].err = err, ![c].at = conn[c].pc,
                            ![c].tx_exp = {}, ![c].tx_chg = {},
                            ![c].eligible = 0, ![c].already = 0, ![c].materialized = 0]
    /\ lock' = IF lock = c THEN NoConn ELSE lock
    /\ expenses' = Rollback(expenses, conn[c].tx_exp)
    /\ subscription_charges' = Rollback(subscription_charges, conn[c].tx_chg)
    /\ exp_seq' = exp_seq + Cardinality(expenses' \ expenses)
    /\ UNCHANGED <<subscriptions, sub_seq, installments, inst_seq, pf>>
    /\ UNCHANGED budgeting

\* loop head: due test, idempotency gate, dry-run branch
CheckSub(c) ==
    /\ conn[c].pc = "check"
    /\ conn[c].i <= Len(conn[c].subs)
    /\ LET sub == CurSub(c)
           due == DueOnMonth(c, sub, conn[c].month)
           api == IF c = "api" THEN 1 ELSE 0
           nxt == NextRow(c, conn[c].subs, conn[c].month, conn[c].i + 1)
       IN  IF due = "error" THEN Abort(c, "failed", "ValueError") /\ UNCHANGED budget
           ELSE
            /\ conn' = [conn EXCEPT ![c] =
                IF due = "not_due" THEN [@ EXCEPT !.i = nxt]
                ELSE IF ChargeExists(ChargesSeenBy(c), sub.id, conn[c].month)
                THEN [@ EXCEPT !.i = nxt, !.eligible = @ + api, !.already = @ + api]
                ELSE IF DryRunBranch(conn[c].dry_run)
                THEN [@ EXCEPT !.i = nxt, !.eligible = @ + api, !.materialized = @ + 1]
                ELSE [@ EXCEPT !.pc = "insert", !.eligible = @ + api]]
            /\ UNCHANGED <<store, lock, budget, pf>>
    /\ UNCHANGED budgeting

\* INSERT INTO expenses: takes the RESERVED lock, checks the foreign key
InsertExpense(c) ==
    /\ conn[c].pc = "insert"
    /\ lock \in {NoConn, c}
    /\ IF ~SubscriptionKeyHolds(subscriptions, CurSub(c).id)
       THEN Abort(c, "failed", "IntegrityError")
       ELSE /\ lock' = c
            /\ conn' = [conn EXCEPT ![c].pc = "marker",
                    ![c].tx_exp = @ \cup {ChargeExpense(CurSub(c), conn[c].month,
                                            exp_seq + Cardinality(conn[c].tx_exp) + 1)}]
            /\ UNCHANGED <<store, pf>>
    /\ UNCHANGED budget
    /\ UNCHANGED budgeting

\* INSERT INTO expenses while another connection holds the lock past the timeout
LockTimeout(c) ==
    /\ conn[c].pc = "insert"
    /\ lock \notin {NoConn, c}
    /\ Abort(c, "failed", "OperationalError")
    /\ UNCHANGED budget
    /\ UNCHANGED budgeting

\* INSERT INTO subscription_charges with exp.lastrowid
InsertMarker(c) ==
    /\ conn[c].pc = "marker"
    /\ IF UniqueViolation(ChargesSeenBy(c), CurSub(c).id, conn[c].month)
       THEN Abort(c, "failed", "UniqueViolation")
       ELSE /\ conn' = [conn EXCEPT ![c].pc = "check",
                    ![c].i = NextRow(c, conn[c].subs, conn[c].month, @ + 1),
                    ![c].materialized = @ + 1,
                    ![c].tx_chg = @ \cup {ChargeMarker(CurSub(c), conn[c].month,
                                            exp_seq + Cardinality(conn[c].tx_exp))}]
            /\ UNCHANGED <<store, lock, pf>>
    /\ UNCHANGED budget
    /\ UNCHANGED budgeting

\* conn.commit() and the report
FinishRun(c) ==
    /\ conn[c].pc = "check"
    /\ conn[c].i > Len(conn[c].subs)
    /\ expenses' = CommitRows(expenses, conn[c].tx_exp)
    /\ subscription_charges' = CommitRows(subscription_charges, conn[c].tx_chg)
    /\ exp_seq' = exp_seq + Cardinality(conn[c].tx_exp)
    /\ lock' = IF lock = c THEN NoConn ELSE lock
    /\ conn' = [conn EXCEPT ![c].pc = "done"]
    /\ UNCHANGED <<subscriptions, sub_seq, installments, inst_seq, budget, pf>>
    /\ UNCHANGED budgeting

\* the process dies with its transaction open: SQLite rolls the
\* transaction back.  Outside a transaction a crash has nothing to undo.
Crash(c) ==
    /\ InRun(c)
    /\ lock = c
    /\ budget.crashes < MaxCrashes
    /\ budget' = [budget EXCEPT !.crashes = @ + 1]
    /\ Abort(c, "crashed", "")

Next ==
    \/ \E b \in SubBodies : CliAddSubscription(b)
    \/ \E b \in SubBodies : ApiAddSubscription(b)
    \/ \E id \in 1..sub_seq, b \in SubBodies, a \in BOOLEAN : UpdateSubscription(id, b, a)
    \/ \E id \in 1..sub_seq : DeleteSubscription(id)
    \/ \E c \in Conns, k \in RunMonths, d \in BOOLEAN : StartRun(c, k, d)
    \/ \E c \in Conns : CheckSub(c)
    \/ \E c \in Conns : InsertExpense(c)
    \/ \E c \in Conns : LockTimeout(c)
    \/ \E c \in Conns : InsertMarker(c)
    \/ \E c \in Conns : FinishRun(c)

Spec == Init /\ [][Next]_vars

\* the same system with process crashes
NextCrash ==
    \/ Next
    \/ \E c \in Conns : Crash(c)

SpecCrash == Init /\ [][NextCrash]_vars

----------------------------------------------------------------------------
(* The requests a subscription handler refuses: the failing branch of the  *)
(* handler whose successful branch is the action above.  A refusal changes *)
(* nothing in the store; pf records it.                                    *)

Reply(op, id, status) == [op |-> op, id |-> id, status |-> status]

\* the same for a request that carries a subscription body
SubReply(op, id, status, body) ==
    [op |-> op, id |-> id, status |-> status, frequency |-> body.frequency]

\* expense_cli.py add_subscription: argparse rejects a frequency outside its
\* choices, parse_date raises ValueError
CliAddSubscriptionRefused(body) ==
    /\ lock = NoConn
    /\ budget.ops < MaxOps
    /\ \/ ~FrequencyCheck(body.frequency)
       \/ ~DateParses(body.start_date)
       \/ body.end_date # NULL /\ ~DateParses(body.end_date)
       \/ ~AmountCheck(body.amount)
    /\ budget' = [budget EXCEPT !.ops = @ + 1]
    /\ pf' = SubReply("add_subscription", NULL_ID,
                      IF ~FrequencyCheck(body.frequency) THEN "SystemExit"
                      ELSE IF ~AmountCheck(body.amount) THEN "IntegrityError"
                      ELSE "ValueError", body)
    /\ UNCHANGED <<store, lock, conn>>
    /\ UNCHANGED budgeting

\* api.py add_subscription: the INSERT violates a CHECK, sqlite3.IntegrityError
ApiAddSubscriptionRefused(body) ==
    /\ lock = NoConn
    /\ budget.ops < MaxOps
    /\ ~(FrequencyCheck(body.frequency) /\ AmountCheck(body.amount))
    /\ budget' = [budget EXCEPT !.ops = @ + 1]
    /\ pf' = SubReply("add_subscription", NULL_ID, "IntegrityError", body)
    /\ UNCHANGED <<store, lock, conn>>
    /\ UNCHANGED budgeting

\* api.py update_subscription: _subscription_or_404, or the UPDATE violates a CHECK
UpdateSubscriptionRefused(id, body, active) ==
    /\ lock = NoConn
    /\ budget.ops < MaxOps
    /\ \/ ~ \E r \in subscriptions : r.id = id
       \/ ~(FrequencyCheck(body.frequency) /\ AmountCheck(body.amount))
    /\ budget' = [budget EXCEPT !.ops = @ + 1]
    /\ pf' = SubReply("update_subscription", id,
                      IF ~ \E r \in subscriptions : r.id = id THEN "404"
                      ELSE "IntegrityError", body)
    /\ UNCHANGED <<store, lock, conn>>
    /\ UNCHANGED budgeting

\* api.py delete_subscription: _subscription_or_404, or the DELETE raises
\* sqlite3.IntegrityError and the handler answers 400
DeleteSubscriptionRefused(id) ==
    /\ lock = NoConn
    /\ budget.ops < MaxOps
    /\ \/ ~ \E r \in subscriptions : r.id = id
       \/ ExpenseKeyBlocks(expenses, id)
    /\ budget' = [budget EXCEPT !.ops = @ + 1]
    /\ pf' = Reply("delete_subscription", id,
                   IF ~ \E r \in subscriptions : r.id = id THEN "404" ELSE "400")
    /\ UNCHANGED <<store, lock, conn>>
    /\ UNCHANGED budgeting

----------------------------------------------------------------------------
(* One-off expenses and installment purchases *)

\* api.py add_expense / expense_cli.py add_expense
AddExpense(body) ==
    /\ lock = NoConn
    /\ budget.ops < MaxOps
    /\ AmountCheck(body.amount)
    /\ expenses' = expenses \cup
            {ExpenseRow(exp_seq + 1, body.expense_date, body.amount, body.category,
                        "one_off", NULL_ID, NULL_ID, NULL_ID, NULL_ID)}
    /\ exp_seq' = exp_seq + 1
    /\ budget' = [budget EXCEPT !.ops = @ + 1]
    /\ UNCHANGED <<subscriptions, sub_seq, subscription_charges, installments, inst_seq,
                   lock, conn, pf>>
    /\ UNCHANGED budgeting

editable_mutant_anykind(table, id) ==
    IF ~ \E r \in table : r.id = id THEN "404" ELSE "ok"

\* api.py _editable_expense_or_404
editable_expense_or_404(table, id) ==
    IF ~ \E r \in table : r.id = id THEN "404"
    ELSE IF RowOf(table, id).kind # "one_off" THEN "400"
    ELSE "ok"

\* api.py update_expense
UpdateExpense(id, body) ==
    /\ lock = NoConn
    /\ budget.ops < MaxOps
    /\ AmountCheck(body.amount)
    /\ budget' = [budget EXCEPT !.ops = @ + 1]
    /\ pf' = Reply("update_expense", id, editable_expense_or_404(expenses, id))
    /\ expenses' =
        IF editable_expense_or_404(expenses, id) = "ok"
        THEN (expenses \ {RowOf(expenses, id)}) \cup
                {[RowOf(expenses, id) EXCEPT !.expense_date = body.expense_date,
                                             !.amount = body.amount,
                                             !.category = body.category]}
        ELSE expenses
    /\ UNCHANGED <<subscriptions, sub_seq, exp_seq, subscription_charges,
                   installments, inst_seq, lock, conn>>
    /\ UNCHANGED budgeting

\* api.py delete_expense; subscription_charges.expense_id is ON DELETE CASCADE
DeleteExpense(id) ==
    /\ lock = NoConn
    /\ budget.ops < MaxOps
    /\ budget' = [budget EXCEPT !.ops = @ + 1]
    /\ pf' = Reply("delete_expense", id, editable_expense_or_404(expenses, id))
    /\ IF editable_expense_or_404(expenses, id) = "ok"
       THEN /\ expenses' = expenses \ {RowOf(expenses, id)}
            /\ subscription_charges' = {ch \in subscription_charges : ch.expense_id # id}
       ELSE UNCHANGED <<expenses, subscription_charges>>
    /\ UNCHANGED <<subscriptions, sub_seq, exp_seq, installments, inst_seq, lock, conn>>
    /\ UNCHANGED budgeting

\* the row add_installment inserts into installments
InstallmentRow(id, plan) ==
    [id |-> id, category |-> plan.category, total_amount |-> plan.total_amount,
     installment_count |-> plan.installment_count, start_date |-> plan.start_date]

\* CHECK(installment_count > 0)
CountCheck(n) == n > 0

InstallmentExpenses_mutant_nextmonth(id, plan, amounts, first) ==
    {ExpenseRow(first + i - 1, shift_month(plan.start_date, i), amounts[i],
                plan.category, "installment", NULL_ID, id, i, plan.installment_count) :
        i \in 1..plan.installment_count}

\* the rows the loop of add_installment inserts into expenses, the i-th
\* (from 0) dated shift_month(start, i)
InstallmentExpenses(id, plan, amounts, first) ==
    {ExpenseRow(first + i - 1, shift_month(plan.start_date, i - 1), amounts[i],
                plan.category, "installment", NULL_ID, id, i, plan.installment_count) :
        i \in 1..plan.installment_count}

\* expense_cli.py add_installment: one transaction, committed after the
\* loop; a CHECK that fails raises sqlite3.IntegrityError and the
\* connection is closed uncommitted
AddInstallment(plan) ==
    /\ lock = NoConn
    /\ budget.ops < MaxOps
    /\ DateParses(plan.start_date)
    /\ CountCheck(plan.installment_count)
    /\ budget' = [budget EXCEPT !.ops = @ + 1]
    /\ \E each \in round_each(plan.total_amount, plan.installment_count) :
        LET amounts == installment_amounts(plan.total_amount, plan.installment_count, each)
            rows == InstallmentExpenses(inst_seq + 1, plan, amounts, exp_seq + 1)
        IN  IF AmountCheck(plan.total_amount) /\ \A e \in rows : AmountCheck(e.amount)
            THEN /\ installments' = CommitRows(installments, {InstallmentRow(inst_seq + 1, plan)})
                 /\ inst_seq' = inst_seq + 1
                 /\ expenses' = CommitRows(expenses, rows)
                 /\ exp_seq' = exp_seq + plan.installment_count
                 /\ pf' = [op |-> "add_installment", id |-> inst_seq + 1, status |-> "ok",
                           plan |-> plan]
            ELSE /\ installments' = Rollback(installments, {InstallmentRow(inst_seq + 1, plan)})
                 /\ expenses' = Rollback(expenses, rows)
                 /\ UNCHANGED <<inst_seq, exp_seq>>
                 /\ pf' = [op |-> "add_installment", id |-> NULL_ID,
                           status |-> "IntegrityError", plan |-> plan]
    /\ UNCHANGED <<subscriptions, sub_seq, subscription_charges, lock, conn>>
    /\ UNCHANGED budgeting

----------------------------------------------------------------------------
(* The ledger as its callers drive it: every handler with the requests it  *)
(* refuses, and materialization runs of the API connection.                *)

LedgerSubBodies == {
    [amount |-> 2990, category |-> "tv", frequency |-> "monthly",
     start_date |-> <<2024, 1, 1>>, end_date |-> NULL],
    [amount |-> 999, category |-> "gym", frequency |-> "weekly",
     start_date |-> <<2024, 1, 1>>, end_date |-> NULL] }

ExpenseBodies == {
    [expense_date |-> <<2024, 1, 15>>, amount |-> 1000, category |-> "food"],
    [expense_date |-> <<2024, 2, 3>>, amount |-> 2500, category |-> "tv"] }

InstallmentPlans == {
    [category |-> "tv", total_amount |-> 10000, installment_count |-> 3,
     start_date |-> <<2023, 12, 31>>],
    [category |-> "food", total_amount |-> 3, installment_count |-> 5,
     start_date |-> <<2024, 1, 15>>] }

LedgerMonths == { <<2024, 1>>, <<2024, 2>> }

NextLedger ==
    \/ \E b \in LedgerSubBodies : CliAddSubscription(b)
    \/ \E b \in LedgerSubBodies : CliAddSubscriptionRefused(b)
    \/ \E b \in LedgerSubBodies : ApiAddSubscription(b)
    \/ \E b \in LedgerSubBodies : ApiAddSubscriptionRefused(b)
    \/ \E id \in 1..sub_seq, b \in LedgerSubBodies, a \in BOOLEAN : UpdateSubscription(id, b, a)
    \/ \E id \in 1..(sub_seq + 1), b \in LedgerSubBodies : UpdateSubscriptionRefused(id, b, TRUE)
    \/ \E id \in 1..sub_seq : DeleteSubscription(id)
    \/ \E id \in 1..(sub_seq + 1) : DeleteSubscriptionRefused(id)
    \/ \E b \in ExpenseBodies : AddExpense(b)
    \/ \E id \in 1..(exp_seq + 1), b \in ExpenseBodies : UpdateExpense(id, b)
    \/ \E id \in 1..(exp_seq + 1) : DeleteExpense(id)
    \/ \E p \in InstallmentPlans : AddInstallment(p)
    \/ \E k \in LedgerMonths, d \in BOOLEAN : StartRun("api", k, d)
    \/ CheckSub("api")
    \/ InsertExpense("api")
    \/ InsertMarker("api")
    \/ FinishRun("api")

SpecLedger == Init /\ [][NextLedger]_vars

----------------------------------------------------------------------------
(* Budgets.  expense_cli.py creates and writes the table per (month,       *)
(* category); api.py rewrites it once per process to one row per category  *)
(* and then reads and writes that form.  The id column is never read and   *)
(* is left out.  A --month argument is kept as typed: <<year, d>> stands   *)
(* for "YYYY-d" and <<year, d1, d2>> for "YYYY-d1d2".                      *)

TextMonth(t) == IF Len(t) = 2 THEN t[2] ELSE 10 * t[2] + t[3]

\* datetime.strptime(value, "%Y-%m"): %m takes one or two digits, 1..12
TextParses(t) == TextMonth(t) \in 1..12

\* the month a text denotes
TextKey(t) == <<t[1], TextMonth(t)>>

\* order of two stored texts under SQLite's BINARY collation, as MAX(budget_month) uses it
TextLT(a, b) ==
    \/ a[1] < b[1]
    \/ /\ a[1] = b[1]
       /\ \/ a[2] < b[2]
          \/ /\ a[2] = b[2]
             /\ \/ Len(a) < Len(b)
                \/ Len(a) = 3 /\ Len(b) = 3 /\ a[3] < b[3]

BudgetReply(op, category, amount, status) ==
    [op |-> op, category |-> category, amount |-> amount, status |-> status]

\* expense_cli.py set_budget: upsert on (budget_month, category); on the
\* rewritten table the INSERT names a column that is gone
CliSetBudget(month, category, amount) ==
    /\ lock = NoConn
    /\ budget.ops < MaxOps
    /\ budget' = [budget EXCEPT !.ops = @ + 1]
    /\ LET status == IF ~TextParses(month) THEN "ValueError"
                     ELSE IF budgets_schema # "legacy" THEN "OperationalError"
                     ELSE IF ~AmountCheck(amount) THEN "IntegrityError"
                     ELSE "ok"
       IN  /\ pf' = BudgetReply("cli_set_budget", category, amount, status)
           /\ budgets' =
                IF status = "ok"
                THEN {b \in budgets : ~(b.budget_month = month /\ b.category = category)}
                        \cup {[budget_month |-> month, category |-> category, amount |-> amount]}
                ELSE budgets
    /\ UNCHANGED <<store, lock, conn, budgets_schema, BUDGET_MIGRATED,
                   BUDGET_MIGRATION_LOCK, threads>>

Upsert_mutant_append(table, category, amount) ==
    table \cup {[category |-> category, amount |-> amount]}

\* INSERT ... ON CONFLICT(category) DO UPDATE SET amount = excluded.amount
Upsert(table, category, amount) ==
    {b \in table : b.category # category} \cup {[category |-> category, amount |-> amount]}

\* api.py set_budget, on a connection get_conn returned by its fast path
SetBudget(category, amount) ==
    /\ BUDGET_MIGRATED
    /\ lock = NoConn
    /\ budget.sets < MaxSets
    /\ budget' = [budget EXCEPT !.sets = @ + 1]
    /\ LET status == IF budgets_schema # "global" THEN "OperationalError"
                     ELSE IF ~AmountCheck(amount) THEN "IntegrityError"
                     ELSE "ok"
       IN  /\ pf' = BudgetReply("set_budget", category, amount, status)
           /\ budgets' = IF status = "ok" THEN Upsert(budgets, category, amount)
                         ELSE budgets
    /\ UNCHANGED <<store, lock, conn, budgets_schema, BUDGET_MIGRATED,
                   BUDGET_MIGRATION_LOCK, threads>>

\* UPDATE budgets SET amount = ? WHERE category = ?
SetAmount(table, category, amount) ==
    {IF b.category = category THEN [b EXCEPT !.amount = amount] ELSE b : b \in table}

RowCount_mutant_one(table, category) == 1

\* cur.rowcount of UPDATE / DELETE ... WHERE category = ?
RowCount(table, category) == Cardinality({b \in table : b.category = category})

\* api.py update_budget
UpdateBudget(category, amount) ==
    /\ BUDGET_MIGRATED
    /\ lock = NoConn
    /\ budget.sets < MaxSets
    /\ budget' = [budget EXCEPT !.sets = @ + 1]
    /\ LET status == IF budgets_schema # "global" THEN "OperationalError"
                     ELSE IF RowCount(budgets, category) = 0 THEN "404"
                     ELSE IF ~AmountCheck(amount) THEN "IntegrityError"
                     ELSE "ok"
       IN  /\ pf' = BudgetReply("update_budget", category, amount, status)
           /\ budgets' = IF status = "ok" THEN SetAmount(budgets, category, amount)
                         ELSE budgets
    /\ UNCHANGED <<store, lock, conn, budgets_schema, BUDGET_MIGRATED,
                   BUDGET_MIGRATION_LOCK, threads>>

\* api.py delete_budget
DeleteBudget(category) ==
    /\ BUDGET_MIGRATED
    /\ lock = NoConn
    /\ budget.sets < MaxSets
    /\ budget' = [budget EXCEPT !.sets = @ + 1]
    /\ LET status == IF budgets_schema # "global" THEN "OperationalError"
                     ELSE IF RowCount(budgets, category) = 0 THEN "404"
                     ELSE "ok"
       IN  /\ pf' = BudgetReply("delete_budget", category, 0, status)
           /\ budgets' = IF status = "ok" THEN {b \in budgets : b.category # category}
                         ELSE budgets
    /\ UNCHANGED <<store, lock, conn, budgets_schema, BUDGET_MIGRATED,
                   BUDGET_MIGRATION_LOCK, threads>>

RECURSIVE SumAmounts(_)
\* sum of column amount over a set of rows
SumAmounts(rows) ==
    IF rows = {} THEN 0
    ELSE LET r == CHOOSE x \in rows : TRUE IN r.amount + SumAmounts(rows \ {r})

\* SELECT ... FROM expenses WHERE expense_date >= start AND expense_date <= end
MonthExpenses(table, k) ==
    {e \in table : DateLE(parse_month(k).start, e.expense_date)
                    /\ DateLE(e.expense_date, parse_month(k).end)}

\* actual[category]: the month's total of a category, 0 when it has no row
CategoryTotal(rows, category) == SumAmounts({e \in rows : e.category = category})

PctChoices_mutant_nocap(spent, budgeted) ==
    IF budgeted > 0
    THEN LET q == (1000 * spent) \div budgeted
             r == (1000 * spent) % budgeted
         IN  IF 2 * r < budgeted THEN {q}
             ELSE IF 2 * r > budgeted THEN {q + 1} ELSE {q, q + 1}
    ELSE {0}

\* round(min(spent / budgeted * 100, 100) if budgeted > 0 else 0, 1), in
\* tenths of a percent; on an exact half the float decides, either way
PctChoices(spent, budgeted) ==
    IF budgeted > 0
    THEN IF spent >= budgeted THEN {1000}
         ELSE LET q == (1000 * spent) \div budgeted
                  r == (1000 * spent) % budgeted
              IN  IF 2 * r < budgeted THEN {q}
                  ELSE IF 2 * r > budgeted THEN {q + 1} ELSE {q, q + 1}
    ELSE {0}

\* the dict appended to result for budget row b
StatusRow(b, spent, pct) ==
    [category |-> b.category, budgeted |-> b.amount, spent |-> spent,
     remaining |-> b.amount - spent, pct |-> pct]

\* sorted(result, key=lambda x: x["pct"], reverse=True)
SortedByPct(q) == \A i, j \in 1..Len(q) : i < j => q[i].pct >= q[j].pct

\* the lists api.py budgets can return for a month: one row per budget
\* row; rows of equal pct keep the order of the SELECT, which SQL leaves open
BudgetStatus(k) ==
    LET rows == MonthExpenses(expenses, k)
        cand == UNION {{StatusRow(b, CategoryTotal(rows, b.category), p) :
                            p \in PctChoices(CategoryTotal(rows, b.category), b.amount)} :
                       b \in budgets}
        n == Cardinality(budgets)
    IN  {q \in [1..n -> cand] :
            /\ {[category |-> q[i].category, amount |-> q[i].budgeted] : i \in 1..n} = budgets
            /\ SortedByPct(q)}

\* api.py budgets (GET /api/budgets), on a connection get_conn returned by
\* its fast path; pf keeps the answer and the request counters it was given at
BudgetsReport(k) ==
    /\ BUDGET_MIGRATED
    /\ IF ~MonthParses(k)
       THEN pf' = [op |-> "budgets", month |-> k, status |-> "ValueError", rows |-> <<>>,
                   at |-> budget]
       ELSE \E q \in BudgetStatus(k) :
                pf' = [op |-> "budgets", month |-> k, status |-> "ok", rows |-> q,
                       at |-> budget]
    /\ UNCHANGED <<store, lock, conn, budget, budgeting>>

\* expense_cli.py last_n_month_keys(month, 3)
last_n_month_keys(k, n) ==
    [i \in 1..n |-> month_key(shift_month(parse_month(k).start, 0 - i))]

\* the categories category_totals has a key for
TotalsKeys(rows) == {e.category : e \in rows}

\* prev_totals[category]: one total per preceding month in which the
\* category has a row, as <<sum, len>>
PrevTotals(table, k, category) ==
    LET keys == last_n_month_keys(k, 3)
        with == {i \in 1..3 : category \in TotalsKeys(MonthExpenses(table, keys[i]))}
    IN  [sum |-> SumAmounts({e \in table : e.category = category
                                /\ \E i \in with : e \in MonthExpenses(table, keys[i])}),
         len |-> Cardinality(with)]

\* current > avg * 1.3 with avg = sum / len; the float product decides an
\* exact equality either way
SpikeFlag(current, hist) ==
    IF hist.len = 0 \/ hist.sum <= 0 THEN {FALSE}
    ELSE IF 10 * current * hist.len > 13 * hist.sum THEN {TRUE}
    ELSE IF 10 * current * hist.len < 13 * hist.sum THEN {FALSE}
    ELSE BOOLEAN

\* the tuple appended to spikes; avg is sum / len and diff is current - avg
SpikeRow(category, current, hist) ==
    [category |-> category, current |-> current, sum |-> hist.sum, len |-> hist.len]

\* sorted(spikes, key=lambda x: x[3], reverse=True)
SortedByDiff(q) ==
    \A i, j \in 1..Len(q) : i < j =>
        (q[i].current * q[i].len - q[i].sum) * q[j].len
            >= (q[j].current * q[j].len - q[j].sum) * q[i].len

\* the spike lists report_savings can print for month k
Spikes(k) ==
    LET rows == MonthExpenses(expenses, k)
        cats == TotalsKeys(rows)
        cur(c) == CategoryTotal(rows, c)
        may == {c \in cats : TRUE \in SpikeFlag(cur(c), PrevTotals(expenses, k, c))}
        must == {c \in cats : SpikeFlag(cur(c), PrevTotals(expenses, k, c)) = {TRUE}}
        cand == {SpikeRow(c, cur(c), PrevTotals(expenses, k, c)) : c \in may}
    IN  UNION {{q \in [1..n -> cand] :
                    /\ \A i, j \in 1..n : i # j => q[i] # q[j]
                    /\ must \subseteq {q[i].category : i \in 1..n}
                    /\ SortedByDiff(q)} :
               n \in 0..Cardinality(cand)}

\* expense_cli.py report_savings, for the spikes it prints; income_rows is
\* whether table incomes has a row in the month
ReportSavings(month, income_rows) ==
    /\ lock = NoConn
    /\ LET status == IF ~TextParses(month) THEN "ValueError"
                     ELSE IF MonthExpenses(expenses, TextKey(month)) = {} /\ ~income_rows
                     THEN "empty"
                     ELSE IF budgets_schema # "legacy" THEN "OperationalError"
                     ELSE "ok"
       IN  IF status = "ok"
           THEN \E q \in Spikes(TextKey(month)) :
                    pf' = [op |-> "report_savings", month |-> month, status |-> status,
                           spikes |-> q, at |-> budget]
           ELSE pf' = [op |-> "report_savings", month |-> month, status |-> status,
                       spikes |-> <<>>, at |-> budget]
    /\ UNCHANGED <<store, lock, conn, budget, budgeting>>

----------------------------------------------------------------------------
(* get_conn of the API process, one step per statement that reads or      *)
(* writes shared state: the flag, the thread lock, the database.           *)

\* the rows of one category
CategoryRows(table, category) == {b \in table : b.category = category}

\* the row the JOIN keeps: budget_month = MAX(budget_month) of the category
LatestRow(table, category) ==
    CHOOSE b \in CategoryRows(table, category) :
        \A o \in CategoryRows(table, category) :
            o = b \/ TextLT(o.budget_month, b.budget_month)

\* INSERT INTO budgets_new ... WHERE trim(coalesce(b.category, '')) <> ''
MigratedRows(table) ==
    {[category |-> c, amount |-> LatestRow(table, c).amount] :
        c \in {b.category : b \in table} \ {""}}

\* a request enters get_conn
CallGetConn(t) ==
    /\ threads[t].pc \in {"idle", "returned", "raised"}
    /\ threads[t].calls < MaxCalls
    /\ threads' = [threads EXCEPT ![t].pc = "test", ![t].calls = @ + 1]
    /\ UNCHANGED <<store, lock, conn, budget, pf, budgets, budgets_schema,
                   BUDGET_MIGRATED, BUDGET_MIGRATION_LOCK>>

\* if _BUDGET_MIGRATED: return
TestFlag(t) ==
    /\ threads[t].pc = "test"
    /\ threads' = [threads EXCEPT ![t].pc =
                        IF BUDGET_MIGRATED THEN "returned" ELSE "acquire"]
    /\ UNCHANGED <<store, lock, conn, budget, pf, budgets, budgets_schema,
                   BUDGET_MIGRATED, BUDGET_MIGRATION_LOCK>>

\* with _BUDGET_MIGRATION_LOCK:
AcquireLock(t) ==
    /\ threads[t].pc = "acquire"
    /\ BUDGET_MIGRATION_LOCK = NoThread
    /\ BUDGET_MIGRATION_LOCK' = t
    /\ threads' = [threads EXCEPT ![t].pc = "retest"]
    /\ UNCHANGED <<store, lock, conn, budget, pf, budgets, budgets_schema, BUDGET_MIGRATED>>

Retest_mutant_skip(flag) == FALSE

\* the second "if _BUDGET_MIGRATED", under the lock
Retest(flag) == flag

\* if _BUDGET_MIGRATED: return (leaving the with block releases the lock)
RetestFlag(t) ==
    /\ threads[t].pc = "retest"
    /\ IF Retest(BUDGET_MIGRATED)
       THEN /\ threads' = [threads EXCEPT ![t].pc = "returned"]
            /\ BUDGET_MIGRATION_LOCK' = NoThread
       ELSE /\ threads' = [threads EXCEPT ![t].pc = "migrate"]
            /\ UNCHANGED BUDGET_MIGRATION_LOCK
    /\ UNCHANGED <<store, lock, conn, budget, pf, budgets, budgets_schema, BUDGET_MIGRATED>>

\* _migrate_budgets_to_global: nothing to do unless the table has column
\* budget_month; the script fails with "database is locked" while another
\* connection holds the write lock, and the exception leaves the with
\* block, which releases the thread lock
Migrate(t) ==
    /\ threads[t].pc = "migrate"
    /\ IF budgets_schema # "legacy"
       THEN /\ threads' = [threads EXCEPT ![t].pc = "set", ![t].ran = @ + 1]
            /\ UNCHANGED <<budgets, budgets_schema, BUDGET_MIGRATION_LOCK>>
       ELSE IF lock # NoConn
       THEN /\ threads' = [threads EXCEPT ![t].pc = "raised"]
            /\ BUDGET_MIGRATION_LOCK' = NoThread
            /\ UNCHANGED <<budgets, budgets_schema>>
       ELSE /\ budgets' = MigratedRows(budgets)
            /\ budgets_schema' = "global"
            /\ threads' = [threads EXCEPT ![t].pc = "set", ![t].ran = @ + 1]
            /\ UNCHANGED BUDGET_MIGRATION_LOCK
    /\ UNCHANGED <<store, lock, conn, budget, pf, BUDGET_MIGRATED>>

\* _BUDGET_MIGRATED = True
SetFlag(t) ==
    /\ threads[t].pc = "set"
    /\ BUDGET_MIGRATED' = TRUE
    /\ threads' = [threads EXCEPT ![t].pc = "release"]
    /\ UNCHANGED <<store, lock, conn, budget, pf, budgets, budgets_schema,
                   BUDGET_MIGRATION_LOCK>>

\* end of the with block, return conn
ReleaseLock(t) ==
    /\ threads[t].pc = "release"
    /\ BUDGET_MIGRATION_LOCK' = NoThread
    /\ threads' = [threads EXCEPT ![t].pc = "returned"]
    /\ UNCHANGED <<store, lock, conn, budget, pf, budgets, budgets_schema, BUDGET_MIGRATED>>

----------------------------------------------------------------------------
(* The API process starting on a store the CLI has written: set-budget     *)
(* calls and a materialization run of the CLI, and the worker threads'     *)
(* get_conn calls.                                                         *)

\* expense_cli.py has created the tables; the API process has not connected
InitLegacy ==
    /\ subscriptions = {}
    /\ sub_seq = 0
    /\ expenses = {}
    /\ exp_seq = 0
    /\ subscription_charges = {}
    /\ installments = {}
    /\ inst_seq = 0
    /\ lock = NoConn
    /\ conn = [c \in Conns |-> IdleConn]
    /\ budget = [ops |-> 0, runs |-> 0, crashes |-> 0, sets |-> 0]
    /\ pf = [op |-> "none"]
    /\ budgets = {}
    /\ budgets_schema = "legacy"
    /\ BUDGET_MIGRATED = FALSE
    /\ BUDGET_MIGRATION_LOCK = NoThread
    /\ threads = [t \in Threads |-> IdleThread]

\* --month 2024-9 and --month 2024-10
LegacyMonths == { <<2024, 9>>, <<2024, 1, 0>> }

LegacyCategories == {"food", ""}

LegacyAmounts == {10000, 20000}

MigrationSubBodies == {
    [amount |-> 2990, category |-> "tv", frequency |-> "monthly",
     start_date |-> <<2024, 1, 1>>, end_date |-> NULL] }

NextMigration ==
    \/ \E m \in LegacyMonths, c \in LegacyCategories, a \in LegacyAmounts : CliSetBudget(m, c, a)
    \/ \E b \in MigrationSubBodies : CliAddSubscription(b)
    \/ StartRun("cli", <<2024, 1>>, FALSE)
    \/ CheckSub("cli")
    \/ InsertExpense("cli")
    \/ InsertMarker("cli")
    \/ FinishRun("cli")
    \/ \E t \in Threads : CallGetConn(t)
    \/ \E t \in Threads : TestFlag(t)
    \/ \E t \in Threads : AcquireLock(t)
    \/ \E t \in Threads : RetestFlag(t)
    \/ \E t \in Threads : Migrate(t)
    \/ \E t \in Threads : SetFlag(t)
    \/ \E t \in Threads : ReleaseLock(t)

SpecMigration == InitLegacy /\ [][NextMigration]_vars

----------------------------------------------------------------------------
(* The budget endpoints of a running API server, with the expenses they    *)
(* report on.                                                              *)

BudgetCategories == {"food", "tv"}

BudgetAmounts == {0, 3000, 0 - 100}

BudgetExpenseBodies == {
    [expense_date |-> <<2024, 1, 15>>, amount |-> 1000, category |-> "food"],
    [expense_date |-> <<2024, 1, 20>>, amount |-> 4000, category |-> "tv"],
    [expense_date |-> <<2024, 2, 3>>, amount |-> 2500, category |-> "food"] }

BudgetMonths == { <<2024, 1>>, <<2024, 13>> }

NextBudget ==
    \/ \E c \in BudgetCategories, a \in BudgetAmounts : SetBudget(c, a)
    \/ \E c \in BudgetCategories, a \in BudgetAmounts : UpdateBudget(c, a)
    \/ \E c \in BudgetCategories : DeleteBudget(c)
    \/ \E c \in BudgetCategories : CliSetBudget(<<2024, 0, 1>>, c, 3000)
    \/ \E b \in BudgetExpenseBodies : AddExpense(b)
    \/ \E k \in BudgetMonths : BudgetsReport(k)

SpecBudget == Init /\ [][NextBudget]_vars

----------------------------------------------------------------------------
(* The CLI on its own store: expenses and the savings report.              *)

SavingsBodies == {
    [expense_date |-> <<2023, 12, 10>>, amount |-> 30000, category |-> "food"],
    [expense_date |-> <<2023, 11, 5>>, amount |-> 10000, category |-> "food"],
    [expense_date |-> <<2024, 1, 10>>, amount |-> 20000, category |-> "food"],
    [expense_date |-> <<2024, 1, 12>>, amount |-> 13000, category |-> "tv"],
    [expense_date |-> <<2023, 10, 31>>, amount |-> 12000, category |-> "tv"],
    [expense_date |-> <<2023, 9, 30>>, amount |-> 500, category |-> "tv"] }

SavingsMonths == { <<2024, 0, 1>>, <<2024, 1>>, <<2023, 1, 2>>, <<2024, 1, 3>> }

NextSavings ==
    \/ \E b \in SavingsBodies : AddExpense(b)
    \/ \E m \in SavingsMonths, i \in BOOLEAN : ReportSavings(m, i)

SpecSavings == InitLegacy /\ [][NextSavings]_vars

----------------------------------------------------------------------------
(* The operations the API exposes on a charged subscription: runs, update  *)
(* and delete of the subscription, update and delete of its entries, and   *)
(* the budget endpoints.                                                   *)

HistorySubBodies == {
    [amount |-> 2990, category |-> "tv", frequency |-> "monthly",
     start_date |-> <<2024, 1, 1>>, end_date |-> NULL],
    [amount |-> 3990, category |-> "tv", frequency |-> "monthly",
     start_date |-> <<2024, 2, 1>>, end_date |-> NULL] }

NextHistory ==
    \/ \E b \in HistorySubBodies : ApiAddSubscription(b)
    \/ \E id \in 1..sub_seq, b \in HistorySubBodies, a \in BOOLEAN : UpdateSubscription(id, b, a)
    \/ \E id \in 1..sub_seq : DeleteSubscription(id)
    \/ \E id \in 1..sub_seq : DeleteSubscriptionRefused(id)
    \/ \E id \in 1..exp_seq, b \in ExpenseBodies : UpdateExpense(id, b)
    \/ \E id \in 1..exp_seq : DeleteExpense(id)
    \/ SetBudget("tv", 3000)
    \/ UpdateBudget("tv", 0)
    \/ DeleteBudget("tv")
    \/ \E k \in LedgerMonths, d \in BOOLEAN : StartRun("api", k, d)
    \/ CheckSub("api")
    \/ InsertExpense("api")
    \/ InsertMarker("api")
    \/ FinishRun("api")

SpecHistory == Init /\ [][NextHistory]_vars

----------------------------------------------------------------------------
(* Harness for the due-date resolvers: Init draws a subscription row and   *)
(* a month key, ResolveDue applies both resolvers.                         *)

DueDates ==
    {d \in {<<y, m, dd>> : y \in {2023, 2024}, m \in {1, 2, 3, 12}, dd \in {1, 28, 29, 31}} :
        DateParses(d)}

DueMonths ==
    { <<2023, 6>>, <<2023, 12>>, <<2024, 1>>, <<2024, 2>>, <<2024, 3>>, <<2025, 2>> }

DueInputs ==
    {[op |-> "due", sub |-> [frequency |-> f, start_date |-> sd, end_date |-> ed],
      month |-> k, api |-> "none", cli |-> "none"] :
        f \in {"monthly", "yearly"}, sd \in DueDates, ed \in DueDates \cup {NULL},
        k \in DueMonths}

InitDue ==
    /\ subscriptions = {}
    /\ sub_seq = 0
    /\ expenses = {}
    /\ exp_seq = 0
    /\ subscription_charges = {}
    /\ installments = {}
    /\ inst_seq = 0
    /\ lock = NoConn
    /\ conn = [c \in Conns |-> IdleConn]
    /\ budget = [ops |-> 0, runs |-> 0, crashes |-> 0, sets |-> 0]
    /\ BudgetsMigrated
    /\ pf \in DueInputs

ResolveDue ==
    /\ pf.op = "due"
    /\ pf.api = "none"
    /\ pf' = [pf EXCEPT !.api = DueOnMonth("api", pf.sub, pf.month),
                        !.cli = DueOnMonth("cli", pf.sub, pf.month)]
    /\ UNCHANGED <<store, lock, conn, budget>>
    /\ UNCHANGED budgeting

NextDue == ResolveDue

SpecDue == InitDue /\ [][NextDue]_vars

----------------------------------------------------------------------------
(* Harness for the installment split: Init draws a total in cents and a    *)
(* count, ApplySplit computes the amounts.                                 *)

SplitTotals == 0..30 \cup {1000, 10000}

SplitCounts == 1..6

SplitInputs ==
    {[op |-> "split", total |-> t, count |-> n, each |-> 0, amounts |-> <<>>] :
        t \in SplitTotals, n \in SplitCounts}

InitSplit ==
    /\ subscriptions = {}
    /\ sub_seq = 0
    /\ expenses = {}
    /\ exp_seq = 0
    /\ subscription_charges = {}
    /\ installments = {}
    /\ inst_seq = 0
    /\ lock = NoConn
    /\ conn = [c \in Conns |-> IdleConn]
    /\ budget = [ops |-> 0, runs |-> 0, crashes |-> 0, sets |-> 0]
    /\ BudgetsMigrated
    /\ pf \in SplitInputs

ApplySplit ==
    /\ pf.op = "split"
    /\ pf.amounts = <<>>
    /\ \E each \in round_each(pf.total, pf.count) :
            pf' = [pf EXCEPT !.each = each,
                             !.amounts = installment_amounts(pf.total, pf.count, each)]
    /\ UNCHANGED <<store, lock, conn, budget>>
    /\ UNCHANGED budgeting

NextSplit == ApplySplit

SpecSplit == InitSplit /\ [][NextSplit]_vars

----------------------------------------------------------------------------
(* Harness for shift_month: Init draws a date and an offset, ApplyShift     *)
(* applies the function.                                                   *)

ShiftDates ==
    {d \in {<<y, m, dd>> : y \in {2023, 2024}, m \in {1, 2, 11, 12}, dd \in {1, 28, 29, 30, 31}} :
        DateParses(d)}

ShiftOffsets == (0 - 14)..14

ShiftInputs ==
    {[op |-> "shift", base |-> d, offset |-> k, result |-> NULL] :
        d \in ShiftDates, k \in ShiftOffsets}

InitShift ==
    /\ subscriptions = {}
    /\ sub_seq = 0
    /\ expenses = {}
    /\ exp_seq = 0
    /\ subscription_charges = {}
    /\ installments = {}
    /\ inst_seq = 0
    /\ lock = NoConn
    /\ conn = [c \in Conns |-> IdleConn]
    /\ budget = [ops |-> 0, runs |-> 0, crashes |-> 0, sets |-> 0]
    /\ BudgetsMigrated
    /\ pf \in ShiftInputs

ApplyShift ==
    /\ pf.op = "shift"
    /\ pf.result = NULL
    /\ pf' = [pf EXCEPT !.result = shift_month(pf.base, pf.offset)]
    /\ UNCHANGED <<store, lock, conn, budget>>
    /\ UNCHANGED budgeting

NextShift == ApplyShift

SpecShift == InitShift /\ [][NextShift]_vars

----------------------------------------------------------------------------
(* Properties *)

HasMarker(id, k) ==
    \E ch \in subscription_charges : ch.subscription_id = id /\ ch.charge_month = k

FirstDay(k) == <<k[1], k[2], 1>>

RECURSIVE SumSeq(_)
SumSeq(q) == IF q = <<>> THEN 0 ELSE q[1] + SumSeq(Tail(q))

DueRows(c) ==
    {n \in 1..Len(conn[c].subs) : DueOnMonth(c, conn[c].subs[n], conn[c].month) = "due"}

\* C1: a non-dry run started after a non-dry run for the same month has
\* finished over the same subscriptions never reaches an insert and never
\* fails; it reports materialized = 0 and already_charged = eligible and
\* adds no expense and no charge marker.
C1_Idempotent ==
    \A c \in Conns :
        (conn[c].after = "rerun" /\ ~conn[c].dry_run) =>
            /\ conn[c].pc \in {"check", "done"}
            /\ conn[c].materialized = 0
            /\ conn[c].tx_exp = {} /\ conn[c].tx_chg = {}
            /\ (c = "api" /\ conn[c].pc = "done") =>
                    /\ conn[c].already = conn[c].eligible
                    /\ conn[c].eligible = Cardinality(DueRows(c))

C1_Witness ==
    /\ conn["api"].after = "rerun" /\ ~conn["api"].dry_run /\ conn["api"].pc = "done"
    /\ conn["api"].eligible >= 1
    /\ conn["api"].already = conn["api"].eligible

\* C2: the committed store never holds two charge markers for one
\* (subscription, month) nor two subscription expenses for one
\* (subscription, billing month), whatever the interleaving of runs.
C2_ExactlyOnce ==
    /\ \A a, b \in subscription_charges :
        (a.subscription_id = b.subscription_id /\ a.charge_month = b.charge_month) => a = b
    /\ \A a, b \in expenses :
        (/\ a.kind = "subscription" /\ b.kind = "subscription"
         /\ a.subscription_id = b.subscription_id
         /\ month_key(a.expense_date) = month_key(b.expense_date)) => a = b

\* two runs passed the gate for the same pair; one committed, the other lost
C2_Witness ==
    \E c \in Conns :
        /\ conn[c].pc = "failed" /\ conn[c].at = "marker"
        /\ HasMarker(CurSub(c).id, conn[c].month)

\* C3 (as claimed): a run whose marker insert hits the uniqueness
\* violation does not fail; it goes on and completes.
C3_DuplicateChargeRecovered ==
    \A c \in Conns : ~(conn[c].pc = "failed" /\ conn[c].err = "UniqueViolation")

\* C4: with crashes, every committed subscription expense has its charge
\* marker, no pair is charged twice, and a run retried after a crash between
\* the two inserts leaves exactly one expense and one marker for every due
\* subscription it read.
C4_CrashAtomic ==
    /\ \A e \in expenses : e.kind = "subscription" =>
            \E ch \in subscription_charges :
                /\ ch.expense_id = e.id /\ ch.subscription_id = e.subscription_id
                /\ ch.charge_month = month_key(e.expense_date)
    /\ \A c \in Conns :
        (conn[c].after = "retry" /\ conn[c].pc = "done" /\ ~conn[c].dry_run) =>
            \A n \in DueRows(c) :
                /\ Cardinality({ch \in subscription_charges :
                        /\ ch.subscription_id = conn[c].subs[n].id
                        /\ ch.charge_month = conn[c].month}) = 1
                /\ Cardinality({e \in expenses :
                        /\ e.kind = "subscription"
                        /\ e.subscription_id = conn[c].subs[n].id
                        /\ month_key(e.expense_date) = conn[c].month}) = 1

\* a run died holding an expense without its marker; the retry charged that pair
C4_Witness ==
    \E c, d \in Conns :
        /\ conn[d].pc = "crashed" /\ conn[d].at = "marker"
        /\ conn[c].pc = "done" /\ conn[c].after = "retry" /\ ~conn[c].dry_run
        /\ \E ch \in conn[c].tx_chg :
            /\ ch.subscription_id = CurSub(d).id
            /\ ch.charge_month = conn[d].month
        /\ Cardinality(expenses) = 1

\* C5 (as claimed): when a non-dry run fails on one subscription, every
\* other due subscription it read is nevertheless charged and committed.
C5_FailureIsolated ==
    \A c \in Conns :
        (conn[c].pc = "failed" /\ conn[c].subs # <<>> /\ ~conn[c].dry_run) =>
            \A n \in 1..Len(conn[c].subs) :
                (n # conn[c].i /\ DateParses(conn[c].subs[n].start_date)
                 /\ DueOnMonth(c, conn[c].subs[n], conn[c].month) = "due")
                    => HasMarker(conn[c].subs[n].id, conn[c].month)

\* C6: every step of a dry run leaves expenses and charge markers as they
\* are, and counts a subscription as materialized exactly when it is due and
\* has no marker for the month.
C6_DryRunWritesNothing ==
    [][\A c \in Conns :
        (conn[c].dry_run /\ conn[c].pc = "check" /\ conn'[c] # conn[c]) =>
            /\ expenses' = expenses
            /\ subscription_charges' = subscription_charges
            /\ conn'[c].pc \in {"check", "done", "failed"}
            /\ conn'[c].pc = "check" =>
                conn'[c].materialized = conn[c].materialized +
                    (IF /\ DueOnMonth(c, CurSub(c), conn[c].month) = "due"
                        /\ ~HasMarker(CurSub(c).id, conn[c].month)
                     THEN 1 ELSE 0)
            /\ conn'[c].pc = "done" => conn'[c].materialized = conn[c].materialized
      ]_vars

\* a dry run over one charged and one uncharged subscription
C6_Witness ==
    /\ conn["api"].pc = "done" /\ conn["api"].dry_run
    /\ conn["api"].materialized = 1 /\ conn["api"].already = 1
    /\ Cardinality(expenses) = 1

\* C7: a finished non-dry run for month m leaves every due subscription it
\* read with a marker for m, whatever markers exist for other months, and
\* writes a marker only for m.
C7_GateKeyedByMonth ==
    \A c \in Conns :
        (conn[c].pc = "done" /\ ~conn[c].dry_run) =>
            /\ \A n \in DueRows(c) : HasMarker(conn[c].subs[n].id, conn[c].month)
            /\ \A ch \in conn[c].tx_chg : ch.charge_month = conn[c].month
            /\ conn[c].materialized = Cardinality(conn[c].tx_chg)
            /\ conn[c].materialized = Cardinality(conn[c].tx_exp)

\* the monthly subscription started 2024-01-01, charged for 2024-01, is
\* charged once more by the run for 2024-02
C7_Witness ==
    \E c \in Conns :
        /\ conn[c].pc = "done" /\ ~conn[c].dry_run /\ conn[c].month = <<2024, 2>>
        /\ conn[c].materialized = 1
        /\ Len(conn[c].subs) = 1
        /\ conn[c].subs[1].frequency = "monthly"
        /\ conn[c].subs[1].start_date = <<2024, 1, 1>>
        /\ HasMarker(conn[c].subs[1].id, <<2024, 1>>)
        /\ HasMarker(conn[c].subs[1].id, <<2024, 2>>)
        /\ Cardinality(expenses) = 2

C10_DueBounds ==
    (pf.op = "due" /\ pf.api # "none") =>
        LET w == parse_month(pf.month)
            late == DateLT(w.end, pf.sub.start_date)
            over == pf.sub.end_date # NULL /\ DateLT(pf.sub.end_date, w.start)
        IN  /\ late => (pf.api = "not_due" /\ pf.cli = "not_due")
            /\ over => (pf.api = "not_due" /\ pf.cli = "not_due")
            /\ (pf.sub.frequency = "monthly" /\ ~late /\ ~over) =>
                    (pf.api = "due" /\ pf.cli = "due")

\* a monthly subscription started on the 31st is due in February
C10_Witness ==
    /\ pf.op = "due" /\ pf.api = "due" /\ pf.cli = "due"
    /\ pf.sub.frequency = "monthly"
    /\ pf.sub.start_date = <<2023, 12, 31>>
    /\ pf.sub.end_date = <<2024, 2, 1>>
    /\ pf.month = <<2024, 2>>

\* C11: for parseable dates and both bound checks passed, each resolver
\* answers due for a yearly subscription exactly when the window's calendar
\* month is the month of start_date (the anniversary, its day clamped to the
\* month's length, then lies in the window), and not due otherwise.
C11_YearlyDue ==
    (pf.op = "due" /\ pf.api # "none" /\ pf.sub.frequency = "yearly") =>
        LET w == parse_month(pf.month)
            late == DateLT(w.end, pf.sub.start_date)
            over == pf.sub.end_date # NULL /\ DateLT(pf.sub.end_date, w.start)
            same == pf.month[2] = pf.sub.start_date[2]
        IN  (~late /\ ~over) =>
                /\ pf.api = (IF same THEN "due" ELSE "not_due")
                /\ pf.cli = (IF same THEN "due" ELSE "not_due")

\* the yearly subscription started 2023-02-28 is due in 2024-02
C11_Witness ==
    /\ pf.op = "due" /\ pf.api = "due" /\ pf.cli = "due"
    /\ pf.sub.frequency = "yearly"
    /\ pf.sub.start_date = <<2023, 2, 28>>
    /\ pf.sub.end_date = NULL
    /\ pf.month = <<2024, 2>>

\* C14: for a valid date d and an offset k (negative, zero or positive)
\* shift_month returns a valid date whose month is k calendar months from
\* d's month, counted across year ends in both directions, and whose day is
\* min(d.day, last day of that month); 2024-01-31 + 1 = 2024-02-29 and
\* 2023-01-31 + 1 = 2023-02-28.
C14_ShiftMonth ==
    (pf.op = "shift" /\ pf.result # NULL) =>
        LET d == pf.base
            k == pf.offset
            r == pf.result
        IN  /\ DateParses(r)
            /\ 12 * r[1] + r[2] = 12 * d[1] + d[2] + k
            /\ r[3] = Min(d[3], MonthRange(r[1], r[2]))
            /\ (d = <<2024, 1, 31>> /\ k = 1) => r = <<2024, 2, 29>>
            /\ (d = <<2023, 1, 31>> /\ k = 1) => r = <<2023, 2, 28>>
            /\ k = 0 => r = d

\* a negative offset that crosses the year end and clamps the day
C14_Witness ==
    /\ pf.op = "shift"
    /\ pf.base = <<2024, 1, 31>> /\ pf.offset = 0 - 2
    /\ pf.result = <<2023, 11, 30>>

C16_MalformedMonthFailsFast ==
    [][\A c \in Conns :
        conn'[c].month[2] \notin 1..12 =>
            /\ conn'[c].pc = "failed" /\ conn'[c].err = "ValueError"
            /\ conn'[c].subs = <<>>
            /\ conn'[c].tx_exp = {} /\ conn'[c].tx_chg = {}
            /\ lock' # c
            /\ conn'[c] # conn[c] => store' = store
      ]_vars

\* month 2024-13 asked of a store that holds a charge
C16_Witness ==
    \E c \in Conns :
        /\ conn[c].pc = "failed" /\ conn[c].month = <<2024, 13>>
        /\ ~conn[c].dry_run
        /\ Cardinality(expenses) = 1 /\ Cardinality(subscription_charges) = 1

\* C17 (as claimed): every stored subscription has a start_date, and an
\* end_date when set, that parses as a calendar date, and no run fails to
\* parse a subscription it read.
C17_StoredDatesParse ==
    /\ \A r \in subscriptions :
        /\ DateParses(r.start_date)
        /\ r.end_date # NULL => DateParses(r.end_date)
    /\ \A c \in Conns :
        ~(conn[c].pc = "failed" /\ conn[c].at = "check" /\ conn[c].err = "ValueError")

\* C13 (as claimed): after add_installment is called with a total >= 0 and
\* a count > 0 the plan is stored and exactly count installment entries are
\* linked to it, numbered 1..count with installment_total = count, the
\* i-th (from 0) in the i-th month after the start month with the start
\* day clamped to that month, so in count consecutive distinct months.
C13_PlanCreated ==
    (/\ pf.op = "add_installment"
     /\ pf.plan.total_amount >= 0 /\ pf.plan.installment_count > 0) =>
        LET n == pf.plan.installment_count
            d == pf.plan.start_date
            es == {e \in expenses : e.installment_id = pf.id}
        IN  /\ pf.status = "ok"
            /\ \E p \in installments : p.id = pf.id /\ p.installment_count = n
            /\ Cardinality(es) = n
            /\ \A e \in es : e.kind = "installment" /\ e.installment_total = n
            /\ \A i \in 1..n : \E e \in es :
                /\ e.installment_number = i
                /\ 12 * e.expense_date[1] + e.expense_date[2] = 12 * d[1] + d[2] + (i - 1)
                /\ e.expense_date[3] = Min(d[3], MonthRange(e.expense_date[1], e.expense_date[2]))
            /\ SumSeq([i \in 1..n |->
                    (CHOOSE e \in es : e.installment_number = i).amount]) = pf.plan.total_amount

InstallmentEntries(table) == {e \in table : e.kind = "installment"}

PlanEntries(table, id) == {e \in table : e.installment_id = id}

\* C15: a step of a materialization run (dry or not, any month) leaves the
\* installment plans and the installment-kind ledger entries as they were
\* and holds no installment-kind row in its transaction; no step removes
\* a plan or changes the entries of a stored plan, and an installment
\* entry appears only together with its plan, so the installment entries
\* of a plan are exactly those written when the plan was created.
C15_InstallmentsOutsideRuns ==
    [][ /\ conn' # conn =>
            /\ installments' = installments
            /\ InstallmentEntries(expenses') = InstallmentEntries(expenses)
            /\ \A c \in Conns : InstallmentEntries(conn'[c].tx_exp) = {}
        /\ \A p \in installments :
            /\ p \in installments'
            /\ PlanEntries(expenses', p.id) = PlanEntries(expenses, p.id)
        /\ \A e \in InstallmentEntries(expenses') \ InstallmentEntries(expenses) :
            /\ inst_seq' = inst_seq + 1
            /\ e.installment_id = inst_seq'
            /\ \E p \in installments' \ installments : p.id = inst_seq'
      ]_vars

\* a run that is not dry has committed a charge written after a plan of
\* three installments, whose entries are all still there
C15_Witness ==
    /\ conn["api"].pc = "done" /\ ~conn["api"].dry_run
    /\ conn["api"].materialized = 1
    /\ \E p \in installments :
        /\ p.installment_count = 3
        /\ Cardinality(PlanEntries(expenses, p.id)) = 3
        /\ \E ch \in subscription_charges, e \in expenses :
            /\ e.id = ch.expense_id /\ e.kind = "subscription"
            /\ \A q \in PlanEntries(expenses, p.id) : q.id < e.id

\* C18: every stored subscription has frequency monthly or yearly, and a
\* create or update request that carries any other frequency is answered
\* with a failure and its step leaves every table as it was.
C18_UnknownFrequencyRejected ==
    [][ /\ \A r \in subscriptions' : r.frequency \in {"monthly", "yearly"}
        /\ (/\ pf' # pf
            /\ pf'.op \in {"add_subscription", "update_subscription"}
            /\ pf'.frequency \notin {"monthly", "yearly"}) =>
                /\ pf'.status \in {"SystemExit", "IntegrityError", "404"}
                /\ UNCHANGED store
      ]_vars

\* an update that carries frequency weekly was refused by the CHECK, and
\* the monthly subscription it addressed is still stored
C18_Witness ==
    /\ pf.op = "update_subscription" /\ pf.status = "IntegrityError"
    /\ pf.frequency = "weekly"
    /\ \E r \in subscriptions : r.id = pf.id /\ r.frequency = "monthly"

HasHistory(id) == \E ch \in subscription_charges : ch.subscription_id = id

\* C19: a subscription with a materialized charge is never removed and its
\* markers and linked ledger entries stay as they are; a delete request
\* for it is answered 400 and changes no table, and 400 is answered only
\* for such a subscription; a subscription that leaves the table had no
\* charge history, and one without history can be deleted whenever the
\* database is not locked.
C19_DeleteWithHistoryFails ==
    [][ /\ \A r \in subscriptions :
            /\ HasHistory(r.id) =>
                /\ \E q \in subscriptions' : q.id = r.id
                /\ \A ch \in subscription_charges :
                        ch.subscription_id = r.id => ch \in subscription_charges'
                /\ \A e \in expenses : e.subscription_id = r.id => e \in expenses'
            /\ (pf' # pf /\ pf'.op = "delete_subscription" /\ pf'.id = r.id) =>
                /\ HasHistory(r.id) /\ pf'.status = "400"
                /\ UNCHANGED store
            /\ (~ \E q \in subscriptions' : q.id = r.id) =>
                /\ ~HasHistory(r.id)
                /\ subscriptions' = subscriptions \ {r}
                /\ UNCHANGED <<expenses, subscription_charges>>
            /\ (~HasHistory(r.id) /\ lock = NoConn /\ budget.ops < MaxOps) =>
                ENABLED (subscriptions' = subscriptions \ {r} /\ DeleteSubscription(r.id))
      ]_vars

\* the delete of a subscription charged for 2024-01 was answered 400; the
\* subscription, its marker and its ledger entry are all still stored
C19_Witness ==
    /\ pf.op = "delete_subscription" /\ pf.status = "400"
    /\ \E r \in subscriptions, ch \in subscription_charges, e \in expenses :
        /\ r.id = pf.id /\ ch.subscription_id = r.id
        /\ ch.charge_month = <<2024, 1>>
        /\ e.id = ch.expense_id /\ e.subscription_id = r.id

\* C20: no step changes or removes a ledger entry of kind subscription or
\* installment, or a marker that points to one, so such an entry keeps the
\* date, amount and category it was created with; an update or delete
\* request is answered 404 exactly when no entry has the id and 400
\* exactly when the entry is not a one_off, and a request answered 404 or
\* 400 changes no table.
C20_OnlyOneOffMutable ==
    [][ /\ \A e \in expenses : e.kind # "one_off" =>
            /\ e \in expenses'
            /\ \A ch \in subscription_charges :
                    ch.expense_id = e.id => ch \in subscription_charges'
        /\ (pf' # pf /\ pf'.op \in {"update_expense", "delete_expense"}) =>
            LET hit == {e \in expenses : e.id = pf'.id}
            IN  /\ (hit = {}) <=> (pf'.status = "404")
                /\ (\E e \in hit : e.kind # "one_off") <=> (pf'.status = "400")
                /\ pf'.status # "ok" => UNCHANGED store
      ]_vars

\* an update of the entry that a run wrote for a subscription was
\* answered 400; the entry and the marker pointing to it are stored
C20_Witness ==
    /\ pf.op = "update_expense" /\ pf.status = "400"
    /\ \E e \in expenses, ch \in subscription_charges :
        /\ e.id = pf.id /\ e.kind = "subscription"
        /\ ch.expense_id = e.id
        /\ e.expense_date = <<ch.charge_month[1], ch.charge_month[2], 1>>

\* the migration bodies that have returned normally, over all threads
Completions == threads["t1"].ran + threads["t2"].ran

\* C30: over all interleavings of the worker threads' get_conn calls the
\* migration returns normally at most once, the flag is set only after it
\* has, at most one thread is inside the locked block, and a get_conn call
\* that has returned its connection finds the flag set and the table
\* rewritten.
C30_MigrationOnce ==
    /\ Completions <= 1
    /\ BUDGET_MIGRATED => (Completions = 1 /\ budgets_schema = "global")
    /\ Cardinality({t \in Threads : threads[t].pc \in {"retest", "migrate", "set", "release"}}) <= 1
    /\ \A t \in Threads :
        threads[t].pc = "returned" => (BUDGET_MIGRATED /\ budgets_schema = "global")

\* t2 passed the first test of the flag while it was unset and waits for
\* the lock; t1, inside the locked block, has rewritten a table of two
\* rows and set the flag
C30_Witness ==
    /\ threads["t1"].pc = "release" /\ threads["t1"].ran = 1
    /\ threads["t2"].pc = "acquire" /\ threads["t2"].ran = 0
    /\ BUDGET_MIGRATED /\ BUDGET_MIGRATION_LOCK = "t1"
    /\ budget.ops = 2 /\ Cardinality(budgets) = 1

\* month a is earlier than month b
MonthLT(a, b) == a[1] < b[1] \/ (a[1] = b[1] /\ a[2] < b[2])

\* C25 (as claimed): the step that rewrites a per-(month, category) table
\* leaves exactly one row for each non-blank category, holding the amount
\* of the category's row with the latest month, and no other row; a
\* migration on a table already rewritten changes nothing.
C25_LatestMonthWins ==
    [][ /\ (budgets_schema = "legacy" /\ budgets_schema' = "global") =>
            /\ {b.category : b \in budgets'} = {b.category : b \in budgets} \ {""}
            /\ \A c \in {b.category : b \in budgets'} :
                /\ Cardinality(CategoryRows(budgets', c)) = 1
                /\ \E b \in CategoryRows(budgets, c) :
                    /\ \A o \in CategoryRows(budgets, c) :
                        o = b \/ MonthLT(TextKey(o.budget_month), TextKey(b.budget_month))
                    /\ [category |-> c, amount |-> b.amount] \in budgets'
        /\ (budgets_schema = "global" /\ threads' # threads) =>
                UNCHANGED <<budgets, budgets_schema>>
      ]_vars

\* C21: the rewritten table holds at most one row per category; a set or
\* update answered ok leaves the category with exactly the amount sent and
\* every other category as it was, a delete answered ok removes the
\* category's row only, and no other step changes the table: the stored
\* amount is that of the most recent successful set or update.
C21_LastWriteWins ==
    [][ LET done == pf' # pf /\ pf'.status = "ok"
                    /\ pf'.op \in {"set_budget", "update_budget", "delete_budget"}
        IN  /\ \A c \in BudgetCategories : Cardinality(CategoryRows(budgets', c)) <= 1
            /\ (done /\ pf'.op # "delete_budget") =>
                /\ CategoryRows(budgets', pf'.category) =
                        {[category |-> pf'.category, amount |-> pf'.amount]}
                /\ \A c \in BudgetCategories \ {pf'.category} :
                        CategoryRows(budgets', c) = CategoryRows(budgets, c)
            /\ (done /\ pf'.op = "delete_budget") =>
                /\ CategoryRows(budgets', pf'.category) = {}
                /\ \A c \in BudgetCategories \ {pf'.category} :
                        CategoryRows(budgets', c) = CategoryRows(budgets, c)
            /\ ~done => budgets' = budgets
      ]_vars

\* the second of two budget requests, an update of food to 0, was answered
\* ok: the row that the first request set now holds 0
C21_Witness ==
    /\ pf.op = "update_budget" /\ pf.status = "ok"
    /\ pf.category = "food" /\ pf.amount = 0
    /\ budget.sets = 2
    /\ budgets = {[category |-> "food", amount |-> 0]}

\* C22: an update or delete of a budget whose category has no row is
\* answered 404 and changes no table, 404 is answered only then, and an
\* update never adds a category to the table.
C22_BudgetNotFound ==
    [][ (pf' # pf /\ pf'.op \in {"update_budget", "delete_budget"}) =>
            /\ CategoryRows(budgets, pf'.category) = {} =>
                    (pf'.status = "404" /\ UNCHANGED <<budgets, budgets_schema, store>>)
            /\ pf'.status = "404" => CategoryRows(budgets, pf'.category) = {}
            /\ pf'.op = "update_budget" =>
                    {b.category : b \in budgets'} \subseteq {b.category : b \in budgets}
      ]_vars

\* with a budget stored for food only, an update of tv was answered 404
\* and the table still holds the food row alone
C22_Witness ==
    /\ pf.op = "update_budget" /\ pf.status = "404" /\ pf.category = "tv"
    /\ budgets = {[category |-> "food", amount |-> 3000]}

\* the rows of report rep answer the budget rows one to one, with spent
\* the month's total of the category and remaining = budgeted - spent
StatusRowsMatch(rep) ==
    LET q == rep.rows
        n == Len(q)
    IN  /\ n = Cardinality(budgets)
        /\ {[category |-> q[i].category, amount |-> q[i].budgeted] : i \in 1..n} = budgets
        /\ \A i \in 1..n :
            /\ q[i].spent = SumAmounts({e \in expenses :
                                /\ e.category = q[i].category
                                /\ month_key(e.expense_date) = rep.month})
            /\ q[i].remaining = q[i].budgeted - q[i].spent
            /\ q[i].pct \in 0..1000
        /\ \A i, j \in 1..n : i < j => q[i].pct >= q[j].pct

\* C23 (as claimed): a report has one row per budgeted category with spent,
\* remaining as above and pct exactly min(spent / budgeted * 100, 100) when
\* budgeted > 0 and 0 when budgeted = 0, rows ordered by pct descending.
\* pct is held in tenths of a percent.
C23_BudgetStatusExact ==
    [][ (pf' # pf /\ pf'.op = "budgets" /\ pf'.status = "ok") =>
            /\ StatusRowsMatch(pf')
            /\ \A i \in 1..Len(pf'.rows) :
                LET r == pf'.rows[i]
                IN  IF r.budgeted > 0
                    THEN r.pct * r.budgeted = 1000 * Min(r.spent, r.budgeted)
                    ELSE r.pct = 0
      ]_vars

\* C23 (amended): the same with pct the value min(spent / budgeted * 100,
\* 100) rounded to one decimal place, and rows ordered by that rounded pct.
C23_BudgetStatusRounded ==
    [][ (pf' # pf /\ pf'.op = "budgets" /\ pf'.status = "ok") =>
            /\ StatusRowsMatch(pf')
            /\ \A i \in 1..Len(pf'.rows) :
                LET r == pf'.rows[i]
                    d == r.pct * r.budgeted - 1000 * Min(r.spent, r.budgeted)
                IN  IF r.budgeted > 0
                    THEN 2 * d <= r.budgeted /\ 2 * (0 - d) <= r.budgeted
                    ELSE r.pct = 0
      ]_vars

\* the report of 2024-01: tv, 40.00 spent of 30.00, capped at 100.0 and
\* first; food, 10.00 spent of 30.00, at 33.3
C23_Witness ==
    /\ pf.op = "budgets" /\ pf.status = "ok" /\ pf.month = <<2024, 1>>
    /\ pf.at = budget
    /\ Len(pf.rows) = 2
    /\ pf.rows[1] = [category |-> "tv", budgeted |-> 3000, spent |-> 4000,
                     remaining |-> 0 - 1000, pct |-> 1000]
    /\ pf.rows[2] = [category |-> "food", budgeted |-> 3000, spent |-> 1000,
                     remaining |-> 2000, pct |-> 333]

\* the category's total over the three months preceding month k
TrailingTotal(k, category) ==
    SumAmounts({e \in expenses :
        /\ e.category = category
        /\ \E i \in 1..3 :
            12 * e.expense_date[1] + e.expense_date[2] = 12 * k[1] + k[2] - i})

\* C24 (as claimed): a savings report flags exactly the categories whose
\* total in the month exceeds 1.3 times a third of their total over the
\* three preceding months, that total being > 0; the reported average is
\* that third, and the rows are ordered by current - average descending.
C24_SpikesOverTrailingAverage ==
    [][ (pf' # pf /\ pf'.op = "report_savings" /\ pf'.status = "ok") =>
            LET k == TextKey(pf'.month)
                q == pf'.spikes
                cur(c) == SumAmounts({e \in expenses :
                                e.category = c /\ month_key(e.expense_date) = k})
            IN  /\ \A c \in {e.category : e \in expenses} :
                    (TrailingTotal(k, c) > 0 /\ 30 * cur(c) > 13 * TrailingTotal(k, c))
                        => \E i \in 1..Len(q) : q[i].category = c
                /\ \A i \in 1..Len(q) :
                    /\ q[i].current = cur(q[i].category)
                    /\ TrailingTotal(k, q[i].category) > 0
                    /\ 30 * q[i].current >= 13 * TrailingTotal(k, q[i].category)
                    /\ 3 * q[i].sum = q[i].len * TrailingTotal(k, q[i].category)
                /\ SortedByDiff(q)
      ]_vars

\* C26: in every committed state each marker points to a stored entry of
\* kind subscription with the marker's subscription_id, dated the first
\* day of the marker's month, and each entry of kind subscription is
\* pointed to by exactly one marker.
C26_MarkerEntryCorrespondence ==
    /\ \A ch \in subscription_charges :
        \E e \in expenses :
            /\ e.id = ch.expense_id
            /\ e.kind = "subscription"
            /\ e.subscription_id = ch.subscription_id
            /\ e.expense_date = <<ch.charge_month[1], ch.charge_month[2], 1>>
    /\ \A e \in expenses :
        e.kind = "subscription" =>
            Cardinality({ch \in subscription_charges : ch.expense_id = e.id}) = 1

\* two months charged for one subscription, next to a one_off entry that
\* was written between the two runs
C26_Witness ==
    /\ Cardinality(subscription_charges) = 2
    /\ Cardinality({e \in expenses : e.kind = "subscription"}) = 2
    /\ \E e \in expenses :
        /\ e.kind = "one_off"
        /\ \E a, b \in subscription_charges : a.expense_id < e.id /\ e.id < b.expense_id

\* C27: a committed marker is in the table, with the same expense_id,
\* after every step, and no step adds a subscription entry for a
\* subscription and month that already have a marker.
C27_ChargeHistoryStable ==
    [][ /\ \A ch \in subscription_charges : ch \in subscription_charges'
        /\ \A e \in expenses' \ expenses :
            e.kind = "subscription" =>
                ~ \E ch \in subscription_charges :
                    /\ ch.subscription_id = e.subscription_id
                    /\ ch.charge_month = month_key(e.expense_date)
      ]_vars

\* after the subscription was charged for 2024-01 a delete of it was
\* answered 400, a budget request was served, and a second run of 2024-01
\* found the month already charged
C27_Witness ==
    /\ pf.op = "delete_subscription" /\ pf.status = "400"
    /\ budget.sets = 1 /\ budget.ops = 2
    /\ conn["api"].pc = "done" /\ conn["api"].month = <<2024, 1>>
    /\ ~conn["api"].dry_run /\ conn["api"].already = 1 /\ conn["api"].materialized = 0
    /\ subscription_charges = {[subscription_id |-> 1, charge_month |-> <<2024, 1>>,
                                expense_id |-> 1]}
    /\ Cardinality(expenses) = 1


\* C28: report accounting.  At the step on which a run completes, the API's
\* counts satisfy eligible = already_charged + materialized, and eligible is
\* the number of selected active subscriptions that are due in the month;
\* a completed non-dry run of either front adds exactly `materialized`
\* expenses and `materialized` charge markers, and a dry run adds none.
\* (The command line reports only its inserted count.)
C28_ReportAccounting ==
    [][\A c \in Conns :
        (conn[c].pc = "check" /\ conn'[c].pc = "done") =>
            /\ c = "api" =>
                /\ conn'[c].eligible = conn'[c].already + conn'[c].materialized
                /\ conn'[c].eligible = Cardinality(DueRows(c))
            /\ ~conn[c].dry_run =>
                /\ Cardinality(expenses' \ expenses) = conn'[c].materialized
                /\ Cardinality(subscription_charges' \ subscription_charges)
                        = conn'[c].materialized
            /\ conn[c].dry_run =>
                /\ expenses' = expenses
                /\ subscription_charges' = subscription_charges]_vars

\* a completed non-dry API run that skipped one subscription already
\* charged and materialized another
C28_Witness ==
    /\ conn["api"].pc = "done"
    /\ ~conn["api"].dry_run
    /\ conn["api"].already >= 1
    /\ conn["api"].materialized >= 1
    /\ conn["api"].eligible = 2


\* C29: the two due-date resolvers agree.  For every monthly or yearly
\* subscription, start date, optional end date and month window, the
\* command line's resolver (anniversaries of the years before, of and after
\* the window) and the API's resolver (the window's year only) give the
\* same answer.
C29_ResolversAgree ==
    (pf.op = "due" /\ pf.api # "none") =>
        /\ pf.api \in {"due", "not_due"}
        /\ pf.api = pf.cli

\* a yearly subscription started on 29 February, resolved for February of a
\* later, non-leap year: both resolvers clamp the anniversary to the 28th
C29_Witness ==
    /\ pf.op = "due"
    /\ pf.sub.frequency = "yearly"
    /\ pf.sub.start_date = <<2024, 2, 29>>
    /\ pf.month = <<2025, 2>>
    /\ pf.api = "due"
    /\ pf.cli = "due"

====
